---- MODULE Spec2Model ----
(***************************************************************************)
(* Model of the Rust binding of ltreesitter (src/rust/lib.rs):             *)
(*   - Module::open_ltreesitter, which registers the native module in a    *)
(*     Lua runtime through luaL_requiref;                                  *)
(*   - WithSource::with_source and TreeWithSource::into_lua, which hand a  *)
(*     tree_sitter::Tree plus its source bytes to the Lua runtime.         *)
(* Native tree resources (TSTree structs) are tracked one by one: who owns *)
(* each, and how many times each was released.                             *)
(***************************************************************************)
EXTENDS Integers, Sequences, FiniteSets, TLC

\* ------------------------------------------------------------------ bounds
MaxRes   == 4   \* native TSTree structs ever allocated
MaxLen   == 1   \* length of the caller's source buffer
MaxOpens == 3   \* calls of open_ltreesitter

Res   == 1..MaxRes
Bytes == {"a", "b"}

RECURSIVE SeqsUpTo(_)
SeqsUpTo(n) ==
  IF n = 0 THEN {<<>>}
  ELSE LET S == SeqsUpTo(n - 1)
       IN  S \cup {Append(s, b) : s \in {x \in S : Len(x) = n - 1}, b \in Bytes}

Buffers == SeqsUpTo(MaxLen)

\* ------------------------------------------------------------- Lua values
NULL     == 0    \* what lua_touserdata yields for a value that is no userdata
CodeAddr == 1    \* address of the first byte of the caller's buffer

Nil               == [type |-> "nil", n |-> 0]
Boolean(b)        == [type |-> "boolean", n |-> IF b THEN 1 ELSE 0]
Integer(n)        == [type |-> "integer", n |-> n]
LightUserData(p)  == [type |-> "lightuserdata", n |-> p]

Arg(args, i) == IF i \in 1..Len(args) THEN args[i] ELSE Nil

lua_toboolean(v)  == ~(v.type = "nil" \/ (v.type = "boolean" /\ v.n = 0))
lua_tointeger(v)  == IF v.type = "integer" THEN v.n ELSE 0
lua_touserdata(v) == IF v.type = "lightuserdata" THEN v.n ELSE NULL

\* --------------------------------------------------------- module names
\* The literal "ltreesitter" (lib.rs:30) is a Rust str: eleven bytes with no
\* NUL after them.  luaL_requiref reads a C string from its address, so the
\* name it sees is the literal followed by whatever bytes the build placed
\* after it, up to the first NUL.  The literal lives in read-only static
\* memory, so every call of one build sees the same name.
ModName     == "ltreesitter"
ModNameRun  == "ltreesitter+trailing"
CStringReads == {ModName, ModNameRun}

\* ---------------------------------------------------------------- grammars
Grammars == {"python", "json"}
TopLevel(lang) == IF lang = "python" THEN "module" ELSE "document"

VARIABLES
  cname,      \* the C string luaL_requiref reads at the literal's address
  lua,        \* the runtime: module table, globals, tree facilities
  opens,      \* open_ltreesitter calls so far: [ok, err]
  lastOpen,   \* what the last open_ltreesitter call did
  code,       \* the bytes now in the caller's buffer memory
  tree,       \* the caller's binding of type tree_sitter::Tree
  tws,        \* the TreeWithSource made from it
  handoffs,   \* into_lua calls performed, per tree (by its struct)
  res,        \* native TSTree structs
  nextRes,    \* next struct to allocate
  objs,       \* tree userdata living in the runtime
  pc,         \* position inside into_lua, "idle" outside it
  frame,      \* locals of the running into_lua
  lastHand    \* result of the last into_lua call

vars == <<cname, lua, opens, lastOpen, code, tree, tws, handoffs, res,
          nextRes, objs, pc, frame, lastHand>>

loaderVars  == <<lua, opens, lastOpen>>
handoffVars == <<tree, tws, handoffs, res, nextRes, objs, pc, frame, lastHand>>

\* ---------------------------------------------------------------- values
NoRes   == [owner |-> "none", frees |-> 0, lang |-> "none"]
NoTree  == [st |-> "uninit", ptr |-> NULL]
NoSlice == [ptr |-> NULL, len |-> 0]
NoTws   == [st |-> "none", ptr |-> NULL, src |-> NoSlice]
NoFrame == [self |-> NoTws, raw |-> NULL, args |-> <<>>, want |-> <<>>,
            wantRoot |-> "none"]
NoOpen  == [flag |-> FALSE, seen |-> FALSE, wasLoaded |-> FALSE, globalBefore |-> 0,
            raised |-> FALSE, loaderCalls |-> 0,
            result |-> "none"]

Init ==
  /\ cname \in CStringReads
  /\ lua = [loaded |-> [n \in CStringReads |-> 0],
            globals |-> [n \in CStringReads |-> 0],
            facilities |-> FALSE,
            loaderCalls |-> 0]
  /\ opens = [ok |-> 0, err |-> 0]
  /\ lastOpen = NoOpen
  /\ code \in Buffers
  /\ tree = NoTree
  /\ tws = NoTws
  /\ handoffs = [r \in Res |-> 0]
  /\ res = [r \in Res |-> NoRes]
  /\ nextRes = 1
  /\ objs = <<>>
  /\ pc = "idle"
  /\ frame = NoFrame
  /\ lastHand = "none"

\* =========================================================== Module Loader

\* The extension's registration entry point: registers the tree-wrapping
\* facilities and leaves the module table on the stack, or raises.
luaopen_ltreesitter(L, raise) ==
  LET L1 == [L EXCEPT !.loaderCalls = @ + 1]
  IN  IF raise
      THEN [L |-> L1, raised |-> TRUE, mod |-> 0]
      ELSE [L |-> [L1 EXCEPT !.facilities = TRUE], raised |-> FALSE,
            mod |-> L1.loaderCalls]

\* The runtime's "require a named module, running its loader if not already
\* loaded" mechanism, with the optional binding of the module as a global.
luaL_requiref(L, modname, glb, raise) ==
  LET o  == IF L.loaded[modname] # 0
            THEN [L |-> L, raised |-> FALSE, mod |-> L.loaded[modname]]
            ELSE luaopen_ltreesitter(L, raise)
      L1 == [o.L EXCEPT !.loaded[modname] = o.mod]
      L2 == IF glb THEN [L1 EXCEPT !.globals[modname] = o.mod] ELSE L1
  IN  IF o.raised
      THEN [L |-> o.L, raised |-> TRUE]
      ELSE [L |-> L2, raised |-> FALSE]

\* Mutant of load_ltreesitter: calls the registration entry point itself on
\* every call instead of going through luaL_requiref.
load_ltreesitter_direct(L, args, name, raise) ==
  LET global == lua_toboolean(Arg(args, 1))
      o      == luaopen_ltreesitter(L, raise)
      L1     == [o.L EXCEPT !.loaded[name] = o.mod]
      L2     == IF global THEN [L1 EXCEPT !.globals[name] = o.mod] ELSE L1
  IN  IF o.raised
      THEN [L |-> o.L, raised |-> TRUE, seen |-> global]
      ELSE [L |-> L2, raised |-> FALSE, seen |-> global]

\* lib.rs:23-35.  `name` is the C string read at the literal's address.
load_ltreesitter(L, args, name, raise) ==
  LET global == lua_toboolean(Arg(args, 1))
      r      == luaL_requiref(L, name, global, raise)
  IN  [L |-> r.L, raised |-> r.raised, seen |-> global]

\* Lua::create_c_function (lib.rs:36, lib.rs:97): Ok or Err.
create_c_function(fail) == IF fail THEN "Err" ELSE "Ok"

\* Mutant of open_result: the outcome of load.call is dropped.
open_result_swallowing(created, raised) ==
  IF created = "Err" THEN "Err" ELSE "Ok"

\* The two `?` of open_ltreesitter (lib.rs:36-38).
open_result(created, raised) ==
  IF created = "Err" THEN "Err"
  ELSE IF raised THEN "Err"
  ELSE "Ok"

\* lib.rs:22-39, one whole call.  cfail: create_c_function fails; lraise:
\* the registration entry point raises if it is run.
open_ltreesitter(global, cfail, lraise) ==
  /\ pc = "idle"
  /\ opens.ok + opens.err < MaxOpens
  /\ LET created == create_c_function(cfail)
         r == IF created = "Ok"
              THEN load_ltreesitter(lua, <<Boolean(global)>>, cname, lraise)
              ELSE [L |-> lua, raised |-> FALSE, seen |-> FALSE]
         result == open_result(created, r.raised)
     IN  /\ lua' = r.L
         /\ opens' = IF result = "Ok"
                     THEN [opens EXCEPT !.ok = @ + 1]
                     ELSE [opens EXCEPT !.err = @ + 1]
         /\ lastOpen' = [flag |-> global, seen |-> r.seen,
                         wasLoaded |-> (\E n \in CStringReads : lua.loaded[n] # 0),
                         globalBefore |-> lua.globals[ModName],
                         raised |-> r.raised,
                         loaderCalls |-> r.L.loaderCalls - lua.loaderCalls,
                         result |-> result]
  /\ UNCHANGED <<cname, code>>
  /\ UNCHANGED handoffVars

\* ============================================================ Tree Handoff

\* Drop of a tree_sitter::Tree wrapper, or the extension releasing a handle:
\* ts_tree_delete on the struct.
Drop(rs, p) ==
  IF p \in Res
  THEN [rs EXCEPT ![p] = [@ EXCEPT !.frees = @ + 1, !.owner = "freed"]]
  ELSE rs

\* Tree::clone (ts_tree_copy): a new struct for the same tree, owned by a
\* new Rust wrapper.
Clone(rs, p, c) == [rs EXCEPT ![c] = [owner |-> "rust", frees |-> 0,
                                      lang |-> rs[p].lang]]

\* Mutant of tree_into_raw: the pointer is read out of the wrapper without
\* ManuallyDrop, so the wrapper is dropped as the function returns.
tree_into_raw_dropping(rs, p) == [res |-> Drop(rs, p), raw |-> p]

\* lib.rs:43-50.  ManuallyDrop suspends the wrapper's destructor; the
\* transmute yields the wrapper's one pointer.  No destructor owns the
\* struct from here on.
tree_into_raw(rs, p) ==
  [res |-> [rs EXCEPT ![p].owner = "nobody"], raw |-> p]

\* A borrowed slice &code[lo..hi] as pointer and length.
SliceOf(lo, hi) == [ptr |-> CodeAddr + lo, len |-> hi - lo]

\* The bytes of memory a slice views.
ReadBytes(mem, ptr, n) ==
  LET off == ptr - CodeAddr
  IN  IF ptr = NULL \/ off < 0 \/ off + n > Len(mem)
      THEN <<>>
      ELSE SubSeq(mem, off + 1, off + n)

\* Mutant of with_source: takes the tree by reference, so the caller's
\* binding stays usable.
with_source_borrowing(tr, src) ==
  [self |-> tr, out |-> [st |-> "live", ptr |-> tr.ptr, src |-> src]]

\* lib.rs:66-73.  `self` is taken by value: the caller's binding is moved.
with_source(tr, src) ==
  [self |-> [st |-> "moved", ptr |-> NULL],
   out  |-> [st |-> "live", ptr |-> tr.ptr, src |-> src]]

\* Mutant of call_args: length and address of the source swapped.
call_args_swapped(raw, self) ==
  <<LightUserData(raw), LightUserData(self.src.ptr), Integer(self.src.len)>>

\* lib.rs:93-98: the tuple (tree, src_len, src) passed to load.call.
\* src_len is a usize; a slice is at most isize::MAX bytes long, so it
\* always fits the runtime's 64-bit integer and is passed as one.
call_args(raw, self) ==
  <<LightUserData(raw), Integer(self.src.len), LightUserData(self.src.ptr)>>

\* The extension's "construct and push a tree object" entry point: takes
\* ownership of the handle, copies src_len bytes from src, and pushes one
\* tree object; if it raises, it releases what it took.
ltreesitter_push_tree(rs, os, mem, t, src_len, src, raise) ==
  LET taken == IF t \in Res THEN [rs EXCEPT ![t].owner = "lua"] ELSE rs
  IN  IF raise
      THEN [res |-> Drop(taken, t), objs |-> os, raised |-> TRUE]
      ELSE [res |-> taken,
            objs |-> Append(os, [handle |-> t,
                                 src |-> ReadBytes(mem, src, src_len),
                                 want |-> <<>>,
                                 wantRoot |-> "none",
                                 reachable |-> TRUE]),
            raised |-> FALSE]

\* Mutant of load_tree: the handle is read from the wrong argument.
load_tree_wrong_index(rs, os, mem, args, raise) ==
  LET t       == lua_touserdata(Arg(args, 2))
      src_len == lua_tointeger(Arg(args, 2))
      src     == lua_touserdata(Arg(args, 3))
  IN  ltreesitter_push_tree(rs, os, mem, t, src_len, src, raise)

\* lib.rs:77-91: the three arguments are read back from the stack and given
\* to the entry point; the one value it pushed is returned.
load_tree(rs, os, mem, args, raise) ==
  LET t       == lua_touserdata(Arg(args, 1))
      src_len == lua_tointeger(Arg(args, 2))
      src     == lua_touserdata(Arg(args, 3))
  IN  ltreesitter_push_tree(rs, os, mem, t, src_len, src, raise)

\* The caller's buffer is dropped or reused: its memory holds other bytes.
\* The borrow held by a live TreeWithSource forbids it.
ReuseBuffer(b) ==
  /\ pc = "idle"
  /\ b # code
  /\ tws.st # "live"
  /\ code' = b
  /\ UNCHANGED <<cname>>
  /\ UNCHANGED loaderVars
  /\ UNCHANGED handoffVars

\* let parsed = parser.parse(code, None) (lib.rs:126): a fresh tree is bound
\* to the caller's variable, which holds no tree at that point.
Parse(lang) ==
  /\ pc = "idle"
  /\ tree.st # "init"
  /\ nextRes <= MaxRes
  /\ res' = [res EXCEPT ![nextRes] = [owner |-> "rust", frees |-> 0, lang |-> lang]]
  /\ tree' = [st |-> "init", ptr |-> nextRes]
  /\ nextRes' = nextRes + 1
  /\ UNCHANGED <<cname, code, tws, handoffs, objs, pc, frame, lastHand>>
  /\ UNCHANGED loaderVars

\* parsed.with_source(&code[lo..hi]) (lib.rs:129).
WithSource(lo, hi) ==
  /\ pc = "idle"
  /\ tree.st = "init"
  /\ tws.st # "live"
  /\ LET r == with_source(tree, SliceOf(lo, hi))
     IN  /\ tree' = r.self
         /\ tws' = r.out
  /\ UNCHANGED <<cname, code, handoffs, res, nextRes, objs, pc, frame, lastHand>>
  /\ UNCHANGED loaderVars

\* The caller drops a Tree it still owns.
DropTree ==
  /\ pc = "idle"
  /\ tree.st = "init"
  /\ tree' = [st |-> "dropped", ptr |-> NULL]
  /\ res' = Drop(res, tree.ptr)
  /\ UNCHANGED <<cname, code, tws, handoffs, nextRes, objs, pc, frame, lastHand>>
  /\ UNCHANGED loaderVars

\* The caller drops a TreeWithSource without handing it off.
DropTws ==
  /\ pc = "idle"
  /\ tws.st = "live"
  /\ tws' = [NoTws EXCEPT !.st = "dropped"]
  /\ res' = Drop(res, tws.ptr)
  /\ UNCHANGED <<cname, code, tree, handoffs, nextRes, objs, pc, frame, lastHand>>
  /\ UNCHANGED loaderVars

\* into_lua, lib.rs:93-96: self.tree.clone(), tree_into_raw, the length and
\* the address of the source.  `self` was moved into the call.
IntoLuaBegin ==
  /\ pc = "idle"
  /\ tws.st = "live"
  /\ nextRes <= MaxRes
  /\ LET self == tws
         r    == tree_into_raw(Clone(res, self.ptr, nextRes), nextRes)
     IN  /\ res' = r.res
         /\ frame' = [self |-> self, raw |-> r.raw,
                      args |-> call_args(r.raw, self),
                      want |-> ReadBytes(code, self.src.ptr, self.src.len),
                      wantRoot |-> TopLevel(res[self.ptr].lang)]
  /\ nextRes' = nextRes + 1
  /\ tws' = [NoTws EXCEPT !.st = "consumed"]
  /\ handoffs' = [handoffs EXCEPT ![tws.ptr] = @ + 1]
  /\ pc' = "create"
  /\ UNCHANGED <<cname, code, tree, objs, lastHand>>
  /\ UNCHANGED loaderVars

\* into_lua, lib.rs:97: create_c_function(load_tree)?.  On Err the call
\* returns and `self`, with the tree it still holds, is dropped.
IntoLuaCreate(fail) ==
  /\ pc = "create"
  /\ IF create_c_function(fail) = "Err"
     THEN /\ res' = Drop(res, frame.self.ptr)
          /\ lastHand' = "Err"
          /\ frame' = NoFrame
          /\ pc' = "idle"
     ELSE /\ pc' = "call"
          /\ UNCHANGED <<res, lastHand, frame>>
  /\ UNCHANGED <<cname, code, tree, tws, handoffs, nextRes, objs>>
  /\ UNCHANGED loaderVars

\* into_lua, lib.rs:98: load.call((tree, src_len, src)), then `self` is
\* dropped as the call returns.
IntoLuaCall(raise) ==
  /\ pc = "call"
  /\ LET r  == load_tree(res, objs, code, frame.args, raise)
         os == IF Len(r.objs) > Len(objs)
               THEN [r.objs EXCEPT ![Len(r.objs)] =
                               [@ EXCEPT !.want = frame.want,
                                         !.wantRoot = frame.wantRoot]]
               ELSE r.objs
     IN  /\ res' = Drop(r.res, frame.self.ptr)
         /\ objs' = os
         /\ lastHand' = IF r.raised THEN "Err" ELSE "Ok"
  /\ frame' = NoFrame
  /\ pc' = "idle"
  /\ UNCHANGED <<cname, code, tree, tws, handoffs, nextRes>>
  /\ UNCHANGED loaderVars

\* =============================================================== runtime

\* The caller lets go of the value and the runtime collects it: the
\* extension's finalizer releases the handle and the copy of the source.
Collect(o) ==
  /\ pc = "idle"
  /\ o \in 1..Len(objs)
  /\ objs[o].reachable
  /\ objs' = [objs EXCEPT ![o] = [@ EXCEPT !.reachable = FALSE,
                                            !.src = <<>>, !.want = <<>>,
                                            !.wantRoot = "none"]]
  /\ res' = Drop(res, objs[o].handle)
  /\ UNCHANGED <<cname, code, tree, tws, handoffs, nextRes, pc, frame, lastHand>>
  /\ UNCHANGED loaderVars

\* Whether the object's handle is a struct only the runtime owns.
Usable(o) ==
  /\ objs[o].handle \in Res
  /\ res[objs[o].handle].owner = "lua"
  /\ res[objs[o].handle].frees = 0

\* parsed:root():type() (lib.rs:132-133).
RootType(o) ==
  IF lua.facilities /\ objs[o].reachable /\ Usable(o)
  THEN TopLevel(res[objs[o].handle].lang)
  ELSE "error"

\* Text of the node spanning bytes i+1..j of the source.
NodeText(o, i, j) == SubSeq(objs[o].src, i + 1, j)

\* ========================================================= specifications

\* The Module Loader alone: any sequence of open_ltreesitter calls on one
\* runtime.
LoaderNext ==
  \E g \in BOOLEAN, cf \in BOOLEAN, lr \in BOOLEAN : open_ltreesitter(g, cf, lr)

LoaderSpec == Init /\ [][LoaderNext]_vars

\* The caller of the test (lib.rs:127-129): open_ltreesitter(false) is called
\* at most once, before the first tree is parsed, and then trees are handed
\* off.
\* open_ltreesitter changes only the runtime's module table, globals and
\* facilities, and the handoff reads only the facilities, which stay once
\* registered: opening later or again adds no handoff behaviour.
OpenFirst ==
  /\ opens.ok + opens.err = 0
  /\ nextRes = 1
  /\ open_ltreesitter(FALSE, FALSE, FALSE)

Next ==
  \/ OpenFirst
  \/ \E b \in Buffers : ReuseBuffer(b)
  \/ \E lang \in Grammars : Parse(lang)
  \/ \E lo \in 0..Len(code) : \E hi \in lo..Len(code) : WithSource(lo, hi)
  \/ DropTree
  \/ DropTws
  \/ IntoLuaBegin
  \/ \E f \in BOOLEAN : IntoLuaCreate(f)
  \/ \E r \in BOOLEAN : IntoLuaCall(r)
  \/ \E o \in 1..Len(objs) : Collect(o)

Spec == Init /\ [][Next]_vars

\* ================================================================ claims

Objs == 1..Len(objs)
Registered == {n \in CStringReads : lua.loaded[n] # 0}
NativeRefs == {tree.ptr, tws.ptr, frame.self.ptr}

C2_NoPartialSuccess ==
  pc = "idle" =>
    \A r \in Res : res[r].owner # "nobody" /\ res[r].frees <= 1

\* C3: at most one handoff is ever performed with a tree value, and once it
\* was handed off no caller-side binding holds it any more.
C3_HandoffConsumes ==
  \A r \in Res :
    /\ handoffs[r] <= 1
    /\ handoffs[r] = 1 => tree.ptr # r /\ tws.ptr # r
    /\ tws.st = "live" /\ tws.ptr = r => tree.ptr # r

\* C3 witness: a tree value was handed off and the call has returned.
C3_Witness ==
  /\ pc = "idle"
  /\ \E r \in Res : handoffs[r] = 1

\* C4: the source held by every live tree object equals the bytes the
\* caller's slice viewed when into_lua was called, whatever the buffer holds
\* now, and node text is the corresponding slice of those bytes.
C4_SourceCopied ==
  \A o \in Objs :
    objs[o].reachable =>
      /\ objs[o].src = objs[o].want
      /\ \A i \in 0..Len(objs[o].want) : \A j \in i..Len(objs[o].want) :
           NodeText(o, i, j) = SubSeq(objs[o].want, i + 1, j)

\* C4 witness: a tree object holds a non-empty source and the caller's
\* buffer no longer holds those bytes.
C4_Witness ==
  \E o \in Objs :
    /\ objs[o].reachable
    /\ Len(objs[o].src) > 0
    /\ tws.st # "live"
    /\ \A lo \in 0..Len(code) : \A hi \in lo..Len(code) :
         ReadBytes(code, CodeAddr + lo, hi - lo) # objs[o].src

\* C5: the module table never holds more than one entry for the module;
\* after n >= 1 calls that all succeeded the registration function has run
\* exactly once and the table holds exactly one entry; a call on a runtime
\* where the module is registered does not run it and raises nothing.
C5_RegistrationIdempotent ==
  /\ Cardinality(Registered) <= 1
  /\ (opens.ok >= 1 /\ opens.err = 0) =>
       lua.loaderCalls = 1 /\ Cardinality(Registered) = 1
  /\ (lastOpen.result # "none" /\ lastOpen.wasLoaded) =>
       lastOpen.loaderCalls = 0 /\ ~lastOpen.raised

\* C5 witness: at least two calls, all successful.
C5_Witness ==
  /\ opens.ok >= 2
  /\ opens.err = 0

\* C6, as claimed: after the first call on a fresh runtime succeeded, the
\* flag the registration saw is the flag passed, the global `ltreesitter` is
\* the loaded module if the flag was true, and nil if it was false (with the
\* module registered).
C6_GlobalFollowsFlag ==
  (opens.ok = 1 /\ opens.err = 0) =>
    /\ lastOpen.seen = lastOpen.flag
    /\ Registered # {}
    /\ IF lastOpen.flag
       THEN lua.globals[ModName] # 0
       ELSE lua.globals[ModName] = 0

\* C7: a call during which the registration function raised returned Err; a
\* call that returned Ok raised nothing and left the module registered; the
\* registration function is run at most once per call.
C7_FailureSurfaced ==
  lastOpen.result # "none" =>
    /\ lastOpen.raised => lastOpen.result = "Err"
    /\ lastOpen.result = "Ok" => ~lastOpen.raised /\ Registered # {}
    /\ lastOpen.loaderCalls <= 1

\* C7 witness: the registration function raised and the call returned Err.
C7_Witness ==
  /\ lastOpen.raised
  /\ lastOpen.result = "Err"
  /\ lastOpen.loaderCalls = 1

\* C8: with the module loaded, the return of a successful into_lua adds
\* exactly one tree object to the runtime, reachable by the caller, and a
\* failed one adds none; every reachable tree object reports the top-level
\* category of the grammar of the tree that was handed off.
C8_OneUsableObject ==
  [][/\ (pc = "call" /\ pc' = "idle") =>
          IF lastHand' = "Ok"
          THEN /\ Len(objs') = Len(objs) + 1
               /\ objs'[Len(objs')].reachable
               /\ objs'[Len(objs')].wantRoot = TopLevel(res[frame.self.ptr].lang)
          ELSE objs' = objs
     /\ lua'.facilities =>
          \A o \in 1..Len(objs') :
             objs'[o].reachable =>
               /\ objs'[o].wantRoot \in {TopLevel(g) : g \in Grammars}
               /\ RootType(o)' = objs'[o].wantRoot]_vars

\* C8 witness: after open_ltreesitter(false), with no global bound, a
\* handoff of a Python tree succeeded and the object's root is "module".
C8_Witness ==
  /\ opens.ok = 1
  /\ \A n \in CStringReads : lua.globals[n] = 0
  /\ pc = "idle"
  /\ lastHand = "Ok"
  /\ \E o \in Objs : objs[o].reachable /\ RootType(o) = "module"

\* C9, as claimed: the step that follows tree_into_raw cannot fail or return
\* early; it is always followed by the call that gives the handle to
\* ltreesitter_push_tree.
C9_WindowNotInterruptible ==
  [][pc = "create" => pc' = "call"]_vars

\* C10, as claimed: on a runtime where the module is registered, a call with
\* the flag true leaves the global `ltreesitter` bound to the registered
\* module, a call with the flag false leaves a bound global as it was, and
\* the module stays registered.
C10_LaterCallHonoursFlag ==
  /\ opens.ok >= 1 => Registered # {}
  /\ (lastOpen.result = "Ok" /\ lastOpen.wasLoaded) =>
       IF lastOpen.flag
       THEN /\ lua.globals[ModName] # 0
            /\ \E n \in Registered : lua.loaded[n] = lua.globals[ModName]
       ELSE lastOpen.globalBefore # 0 => lua.globals[ModName] = lastOpen.globalBefore

====
